---- MODULE Spec2Model ----
(***************************************************************************)
(* Indicator and regime-label pipeline of the NIFTY iron condor dashboard  *)
(* (src/app.py).                                                           *)
(*                                                                         *)
(* Floating-point values are modelled exactly: a value is a pair <<n, d>>. *)
(*   d > 0  : the rational n/d in lowest terms                             *)
(*   <<0,0>>: NaN ("not computable")                                       *)
(*   <<1,0>>, <<-1,0>> : +infinity, -infinity                              *)
(* Arithmetic follows IEEE-754 for NaN and the infinities; rounding and    *)
(* the sign of zero are not modelled.  A series is a sequence indexed from *)
(* 1, so position i of the model is pandas position i-1.                   *)
(***************************************************************************)
EXTENDS Integers, Sequences, FiniteSets, TLC

VARIABLES
    pc,            \* position of the script run (pipeline) or of the harness
    nifty,         \* frame returned by fetch_yf(NIFTY_TICKER, ...)
    vix,           \* frame returned by fetch_yf(VIX_TICKER, ...)
    view_start,    \* sidebar date input
    view_end,      \* sidebar date input
    df,            \* merged frame with the metric columns
    view_df,       \* rows of df inside the view window
    ma20_slope,    \* slope(view_df["Ma20"], 20)
    dir_text,      \* direction_label(...)
    trend_text,    \* trend_strength_label(...)
    window_return, \* (latest close / first close) - 1
    call,          \* a single function call: name and arguments
    ret            \* its return value

vars == <<pc, nifty, vix, view_start, view_end, df, view_df, ma20_slope,
          dir_text, trend_text, window_return, call, ret>>

----------------------------------------------------------------------------
(* Floating-point values *)

NaN == <<0, 0>>
PosInf == <<1, 0>>
NegInf == <<-1, 0>>

Abs(x) == IF x < 0 THEN -x ELSE x
Sign(x) == IF x > 0 THEN 1 ELSE IF x < 0 THEN -1 ELSE 0

RECURSIVE Gcd(_, _)
Gcd(a, b) == IF b = 0 THEN a ELSE Gcd(b, a % b)

\* the value n/d (d may be 0 or negative) in canonical form
Norm(n, d) ==
    IF d = 0 THEN <<Sign(n), 0>>
    ELSE LET g == Gcd(Abs(n), Abs(d))
         IN  <<(Sign(d) * n) \div g, Abs(d) \div g>>

F(k) == <<k, 1>>

isnan(a) == a = NaN
IsInf(a) == a[2] = 0 /\ a[1] # 0
IsFinite(a) == a[2] # 0

FNeg(a) == <<-a[1], a[2]>>
FAbs(a) == <<Abs(a[1]), a[2]>>

FAdd(a, b) ==
    IF isnan(a) \/ isnan(b) THEN NaN
    ELSE IF IsInf(a) /\ IsInf(b) THEN (IF a = b THEN a ELSE NaN)
    ELSE IF IsInf(a) THEN a
    ELSE IF IsInf(b) THEN b
    ELSE Norm(a[1] * b[2] + b[1] * a[2], a[2] * b[2])

FSub(a, b) == FAdd(a, FNeg(b))

FMul(a, b) ==
    IF isnan(a) \/ isnan(b) THEN NaN
    ELSE IF IsInf(a) \/ IsInf(b) THEN <<Sign(a[1]) * Sign(b[1]), 0>>
    ELSE Norm(a[1] * b[1], a[2] * b[2])

\* element-wise numpy/pandas division: x/0 is an infinity, 0/0 is NaN
FDiv(a, b) ==
    IF isnan(a) \/ isnan(b) THEN NaN
    ELSE IF IsInf(b) THEN (IF IsInf(a) THEN NaN ELSE F(0))
    ELSE IF IsInf(a) THEN <<a[1] * (IF b[1] < 0 THEN -1 ELSE 1), 0>>
    ELSE Norm(a[1] * b[2], a[2] * b[1])

\* comparisons are false as soon as one side is NaN
FLt(a, b) ==
    /\ ~isnan(a)
    /\ ~isnan(b)
    /\ IF IsInf(a) \/ IsInf(b)
       THEN a # b /\ (a = NegInf \/ b = PosInf)
       ELSE a[1] * b[2] < b[1] * a[2]
FGt(a, b) == FLt(b, a)
FLe(a, b) == ~isnan(a) /\ ~isnan(b) /\ ~FLt(b, a)
FGe(a, b) == FLe(b, a)

----------------------------------------------------------------------------
(* pandas Series operations *)

\* Series.shift(2) in place of shift(1)
shift_by_two(s) == [i \in 1..Len(s) |-> IF i <= 2 THEN NaN ELSE s[i - 2]]

\* Series.shift(1)
shift(s) == [i \in 1..Len(s) |-> IF i = 1 THEN NaN ELSE s[i - 1]]

\* Series.diff()
diff(s) == [i \in 1..Len(s) |-> IF i = 1 THEN NaN ELSE FSub(s[i], s[i - 1])]

\* Series.pct_change()
pct_change(s) ==
    [i \in 1..Len(s) |->
        IF i = 1 THEN NaN ELSE FSub(FDiv(s[i], s[i - 1]), F(1))]

RECURSIVE SumF(_, _, _)
SumF(s, a, b) == IF a > b THEN F(0) ELSE FAdd(SumF(s, a, b - 1), s[b])

\* rolling windows keep a running sum of the observations and a count of the
\* missing ones; rolling turns infinities into NaN before either is taken.
\* RunningSum(s, lo, hi)[k] is the sum of the finite values of s[lo..lo+k-1]
RECURSIVE RunningSum(_, _, _)
RunningSum(s, lo, hi) ==
    IF lo > hi THEN <<>>
    ELSE IF lo = hi THEN <<IF IsFinite(s[lo]) THEN s[lo] ELSE F(0)>>
    ELSE LET mid == (lo + hi) \div 2
             left == RunningSum(s, lo, mid)
             right == RunningSum(s, mid + 1, hi)
             base == left[Len(left)]
         IN  left \o [k \in 1..Len(right) |-> FAdd(base, right[k])]

RECURSIVE RunningMissing(_, _, _)
RunningMissing(s, lo, hi) ==
    IF lo > hi THEN <<>>
    ELSE IF lo = hi THEN <<IF IsFinite(s[lo]) THEN 0 ELSE 1>>
    ELSE LET mid == (lo + hi) \div 2
             left == RunningMissing(s, lo, mid)
             right == RunningMissing(s, mid + 1, hi)
             base == left[Len(left)]
         IN  left \o [k \in 1..Len(right) |-> base + right[k]]

\* Series.rolling(window).sum(): min_periods = window, so the value at i is
\* defined when positions i-window+1..i exist and all hold finite numbers
rolling_sum(s, window) ==
    LET total == <<F(0)>> \o RunningSum(s, 1, Len(s))
        missing == <<0>> \o RunningMissing(s, 1, Len(s))
    IN  [i \in 1..Len(s) |->
            IF window >= 1 /\ i >= window
               /\ missing[i + 1] = missing[i - window + 1]
            THEN FSub(total[i + 1], total[i - window + 1])
            ELSE NaN]

\* rolling(window, min_periods=1).mean(): the mean of the finite values seen
rolling_mean_min_periods_1(s, window) ==
    [i \in 1..Len(s) |->
        LET lo == IF i - window + 1 < 1 THEN 1 ELSE i - window + 1
            seen == SelectSeq(SubSeq(s, lo, i), IsFinite)
        IN  FDiv(SumF(seen, 1, Len(seen)), F(Len(seen)))]

\* Series.rolling(window).mean()
rolling_mean(s, window) ==
    LET sums == rolling_sum(s, window)
    IN  [i \in 1..Len(s) |-> FDiv(sums[i], F(window))]

Squares(s) == [i \in 1..Len(s) |-> FMul(s[i], s[i])]

\* square of Series.rolling(window).std(): sample variance (ddof = 1),
\* NaN for window = 1
rolling_var(s, window) ==
    LET sm == rolling_sum(s, window)
        sq == rolling_sum(Squares(s), window)
    IN  [i \in 1..Len(s) |->
            FDiv(FSub(FMul(F(window), sq[i]), FMul(sm[i], sm[i])),
                 F(window * (window - 1)))]

\* DataFrame.max(axis=1) of three columns: NaN entries are skipped
RowMax3(a, b, c) ==
    LET m2(x, y) == IF isnan(x) THEN y
                    ELSE IF isnan(y) THEN x
                    ELSE IF FLt(x, y) THEN y ELSE x
    IN  m2(m2(a, b), c)

----------------------------------------------------------------------------
(* Indicators *)

\* close.pct_change().fillna(0) in place of close.pct_change()
realized_vol_fillna(close, window, ann_factor) ==
    LET r == pct_change(close)
        v == rolling_var([i \in 1..Len(r) |-> IF isnan(r[i]) THEN F(0) ELSE r[i]],
                         window)
    IN  [i \in 1..Len(close) |-> [sq |-> FMul(F(ann_factor), v[i])]]

\* close.pct_change().rolling(window).std() * sqrt(ann_factor), kept exact:
\* the record [sq |-> q] stands for the square root of q (NaN when q is NaN)
realized_vol(close, window, ann_factor) ==
    LET v == rolling_var(pct_change(close), window)
    IN  [i \in 1..Len(close) |-> [sq |-> FMul(F(ann_factor), v[i])]]

true_range(high, low, close) ==
    LET prev_close == shift(close)
    IN  [i \in 1..Len(high) |->
            RowMax3(FAbs(FSub(high[i], low[i])),
                    FAbs(FSub(high[i], prev_close[i])),
                    FAbs(FSub(low[i], prev_close[i])))]

atr(high, low, close, window) ==
    rolling_mean(true_range(high, low, close), window)

\* -Series.diff()
neg_diff(s) ==
    [i \in 1..Len(s) |-> IF i = 1 THEN NaN ELSE FNeg(FSub(s[i], s[i - 1]))]

adx(high, low, close, window) ==
    LET n == Len(high)
        up_move == diff(high)
        down_move == neg_diff(low)
        \* np.where: a comparison with NaN is false, so position 1 holds 0.0
        plus_dm == [i \in 1..n |->
                       IF FGt(up_move[i], down_move[i]) /\ FGt(up_move[i], F(0))
                       THEN up_move[i] ELSE F(0)]
        minus_dm == [i \in 1..n |->
                        IF FGt(down_move[i], up_move[i])
                           /\ FGt(down_move[i], F(0))
                        THEN down_move[i] ELSE F(0)]
        tr == true_range(high, low, close)
        tr_n == rolling_sum(tr, window)
        plus_dm_n == rolling_sum(plus_dm, window)
        minus_dm_n == rolling_sum(minus_dm, window)
        plus_di == [i \in 1..n |-> FMul(F(100), FDiv(plus_dm_n[i], tr_n[i]))]
        minus_di == [i \in 1..n |-> FMul(F(100), FDiv(minus_dm_n[i], tr_n[i]))]
        dx == [i \in 1..n |->
                  FDiv(FMul(F(100), FAbs(FSub(plus_di[i], minus_di[i]))),
                       FAdd(plus_di[i], minus_di[i]))]
    IN  rolling_mean(dx, window)

\* Series.dropna()
dropna(s) == SelectSeq(s, LAMBDA v : ~isnan(v))

\* Series.tail(n), n >= 0
tail(s, n) == IF n >= Len(s) THEN s ELSE SubSeq(s, Len(s) - n + 1, Len(s))

Max(a, b) == IF a >= b THEN a ELSE b

RECURSIVE SumXY(_, _)
\* sum of x*y over x = 0..k-1, y = ys[x+1]
SumXY(ys, k) ==
    IF k = 0 THEN F(0) ELSE FAdd(SumXY(ys, k - 1), FMul(F(k - 1), ys[k]))

RECURSIVE SumX(_)
\* sum of x over x = 0..k-1
SumX(k) == IF k = 0 THEN 0 ELSE SumX(k - 1) + (k - 1)

RECURSIVE SumXX(_)
\* sum of x*x over x = 0..k-1
SumXX(k) == IF k = 0 THEN 0 ELSE SumXX(k - 1) + (k - 1) * (k - 1)

\* np.polyfit(x, y, 1)[0] for x = 0..n-1: the least-squares slope
polyfit1(ys) ==
    LET n == Len(ys)
        sx == SumX(n)
        sxx == SumXX(n)
        sy == SumF(ys, 1, n)
        sxy == SumXY(ys, n)
    IN  FDiv(FSub(FMul(F(n), sxy), FMul(F(sx), sy)), F(n * sxx - sx * sx))

\* the length test written with <= in place of <
slope_le(series, lookback) ==
    LET y == tail(dropna(series), lookback)
    IN  IF Len(y) <= Max(5, lookback \div 2) THEN NaN ELSE polyfit1(y)

slope(series, lookback) ==
    LET y == tail(dropna(series), lookback)
    IN  IF Len(y) < Max(5, lookback \div 2) THEN NaN ELSE polyfit1(y)

----------------------------------------------------------------------------
(* Labels *)

DirUnknown == "Direction: -"
DirUp == "Direction: Up"
DirDown == "Direction: Down"
DirSideways == "Direction: Sideways / Mixed"
TrendUnknown == "Trend strength: -"
TrendStrong == "Trend strength: Strong"
TrendMedium == "Trend strength: Medium"
TrendWeak == "Trend strength: Weak"
ZeroDivisionError == "ZeroDivisionError"

\* division of two Python floats raises on a zero divisor
PyDivRaises(a, b) == b = F(0)

\* the return taken from end to start: start_close / end_close - 1
direction_label_swapped(start_close, end_close, ma_slope) ==
    IF isnan(start_close) \/ isnan(end_close) THEN DirUnknown
    ELSE IF PyDivRaises(end_close, start_close) THEN ZeroDivisionError
    ELSE LET r == FSub(FDiv(start_close, end_close), F(1))
         IN  IF FGt(r, <<1, 100>>) /\ (isnan(ma_slope) \/ FGe(ma_slope, F(0)))
             THEN DirUp
             ELSE IF FLt(r, <<-1, 100>>)
                     /\ (isnan(ma_slope) \/ FLe(ma_slope, F(0)))
             THEN DirDown
             ELSE DirSideways

\* the missing-close test written with `and` in place of `or`
direction_label_and(start_close, end_close, ma_slope) ==
    IF isnan(start_close) /\ isnan(end_close) THEN DirUnknown
    ELSE IF PyDivRaises(end_close, start_close) THEN ZeroDivisionError
    ELSE LET r == FSub(FDiv(end_close, start_close), F(1))
         IN  IF FGt(r, <<1, 100>>) /\ (isnan(ma_slope) \/ FGe(ma_slope, F(0)))
             THEN DirUp
             ELSE IF FLt(r, <<-1, 100>>)
                     /\ (isnan(ma_slope) \/ FLe(ma_slope, F(0)))
             THEN DirDown
             ELSE DirSideways

direction_label(start_close, end_close, ma_slope) ==
    IF isnan(start_close) \/ isnan(end_close) THEN DirUnknown
    ELSE IF PyDivRaises(end_close, start_close) THEN ZeroDivisionError
    ELSE LET r == FSub(FDiv(end_close, start_close), F(1))
         IN  IF FGt(r, <<1, 100>>) /\ (isnan(ma_slope) \/ FGe(ma_slope, F(0)))
             THEN DirUp
             ELSE IF FLt(r, <<-1, 100>>)
                     /\ (isnan(ma_slope) \/ FLe(ma_slope, F(0)))
             THEN DirDown
             ELSE DirSideways

\* the Medium band entered with > 18 in place of >= 18
trend_strength_label_gt(adx_val) ==
    IF isnan(adx_val) THEN TrendUnknown
    ELSE IF FGe(adx_val, F(25)) THEN TrendStrong
    ELSE IF FGt(adx_val, F(18)) THEN TrendMedium
    ELSE TrendWeak

trend_strength_label(adx_val) ==
    IF isnan(adx_val) THEN TrendUnknown
    ELSE IF FGe(adx_val, F(25)) THEN TrendStrong
    ELSE IF FGe(adx_val, F(18)) THEN TrendMedium
    ELSE TrendWeak

----------------------------------------------------------------------------
(* Bounds of the checked inputs *)

MaxBars == 3        \* longest bar series given to an indicator
MaxPrice == 2       \* prices of those bars are 1..MaxPrice
MaxWindow == 2      \* largest indicator window
MaxSeriesLen == 5   \* longest series given to slope
MaxSeriesVal == 1   \* its values are NaN or 0..MaxSeriesVal
MaxLookback == 11   \* largest lookback given to slope
BaseClose == 149    \* closes given to direction_label are
CloseSpan == 3      \*   NaN, 0 and BaseClose..BaseClose+CloseSpan
MaxAdxVal == 60     \* ADX values given to trend_strength_label: k/2, k <= MaxAdxVal

Idle == "idle"

SeqsUpTo(S, n) == UNION {[1..k -> S] : k \in 0..n}

\* bars <<high, low, close>> with low <= close <= high
ValidBars(lo, hi) ==
    {b \in (lo..hi) \X (lo..hi) \X (lo..hi) : b[2] <= b[3] /\ b[3] <= b[1]}

Col(bars, j) == [i \in 1..Len(bars) |-> F(bars[i][j])]

----------------------------------------------------------------------------
(* Single calls of the indicator, statistics and label functions *)

IdlePipeline ==
    /\ nifty = Idle /\ vix = Idle /\ view_start = Idle /\ view_end = Idle
    /\ df = Idle /\ view_df = Idle /\ ma20_slope = Idle /\ dir_text = Idle
    /\ trend_text = Idle /\ window_return = Idle

IndicatorCalls(series, windows) ==
    {[fn |-> f, args |-> <<Col(b, 1), Col(b, 2), Col(b, 3), w>>] :
        f \in {"atr", "adx"}, b \in series, w \in windows}
    \cup
    {[fn |-> "true_range", args |-> <<Col(b, 1), Col(b, 2), Col(b, 3)>>] :
        b \in series}

SlopeCalls(series, lookbacks) ==
    {[fn |-> "slope", args |-> <<s, n>>] : s \in series, n \in lookbacks}

LabelCloses == {NaN, F(0)} \cup {F(k) : k \in BaseClose..(BaseClose + CloseSpan)}
LabelSlopes == {NaN, F(-1), F(0), F(1)}
LabelAdxVals == {NaN, PosInf, NegInf} \cup {Norm(k, 2) : k \in 0..MaxAdxVal}

LabelCalls(closes, slopes, adx_values) ==
    {[fn |-> "direction_label", args |-> <<a, b, m>>] :
        a \in closes, b \in closes, m \in slopes}
    \cup
    {[fn |-> "trend_strength_label", args |-> <<v>>] : v \in adx_values}

InitIndicators ==
    /\ pc = "call"
    /\ call \in IndicatorCalls(SeqsUpTo(ValidBars(1, MaxPrice), MaxBars),
                                1..MaxWindow)
    /\ ret = Idle
    /\ IdlePipeline
InitStatistics ==
    /\ pc = "call"
    /\ call \in SlopeCalls(SeqsUpTo({NaN} \cup {F(k) : k \in 0..MaxSeriesVal},
                                     MaxSeriesLen),
                            0..MaxLookback)
    /\ ret = Idle
    /\ IdlePipeline
InitLabels ==
    /\ pc = "call"
    /\ call \in LabelCalls(LabelCloses, LabelSlopes, LabelAdxVals)
    /\ ret = Idle
    /\ IdlePipeline

Return(fn, value) ==
    /\ pc = "call"
    /\ call.fn = fn
    /\ ret' = value
    /\ pc' = "returned"
    /\ UNCHANGED <<nifty, vix, view_start, view_end, df, view_df, ma20_slope,
                   dir_text, trend_text, window_return, call>>

Returned(fn) == pc = "returned" /\ call.fn = fn

Call_true_range ==
    Return("true_range", true_range(call.args[1], call.args[2], call.args[3]))
Call_atr ==
    Return("atr", atr(call.args[1], call.args[2], call.args[3], call.args[4]))
Call_adx ==
    Return("adx", adx(call.args[1], call.args[2], call.args[3], call.args[4]))
Call_slope ==
    Return("slope", slope(call.args[1], call.args[2]))
Call_direction_label ==
    Return("direction_label",
           direction_label(call.args[1], call.args[2], call.args[3]))
Call_trend_strength_label ==
    Return("trend_strength_label", trend_strength_label(call.args[1]))

NextIndicators == Call_true_range \/ Call_atr \/ Call_adx
NextStatistics == Call_slope
NextLabels == Call_direction_label \/ Call_trend_strength_label

SpecIndicators == InitIndicators /\ [][NextIndicators]_vars
SpecStatistics == InitStatistics /\ [][NextStatistics]_vars
SpecLabels == InitLabels /\ [][NextLabels]_vars

----------------------------------------------------------------------------
(* Properties of the single calls *)

WindowReturn(start_close, end_close) == FSub(FDiv(end_close, start_close), F(1))

\* C3 (as stated): a label whose input is not computable is the unknown
\* label; for direction_label the inputs are the start close, the end close
\* and the moving-average slope.
C3_Original ==
    /\ (Returned("trend_strength_label") /\ isnan(call.args[1]))
          => ret = TrendUnknown
    /\ (Returned("direction_label")
        /\ (isnan(call.args[1]) \/ isnan(call.args[2]) \/ isnan(call.args[3])))
          => ret \notin {DirUp, DirDown, DirSideways}

\* C3 (amended): trend_strength_label returns the unknown label when ADX is
\* not computable, and direction_label returns the unknown label exactly
\* when the start close or the end close is not computable; when only the
\* slope is not computable the label is Up, Down or Sideways by the window
\* return alone.
C3_UnknownLabels ==
    /\ (Returned("trend_strength_label") /\ isnan(call.args[1]))
          => ret = TrendUnknown
    /\ Returned("direction_label") =>
          ((isnan(call.args[1]) \/ isnan(call.args[2])) <=> ret = DirUnknown)
    /\ (Returned("direction_label") /\ isnan(call.args[3])
        /\ ~isnan(call.args[1]) /\ ~isnan(call.args[2]) /\ call.args[1] # F(0))
          => LET r == WindowReturn(call.args[1], call.args[2])
             IN  ret = IF FGt(r, <<1, 100>>) THEN DirUp
                       ELSE IF FLt(r, <<-1, 100>>) THEN DirDown
                       ELSE DirSideways

C3_Witness ==
    /\ Returned("direction_label")
    /\ ~isnan(call.args[1]) /\ isnan(call.args[2]) /\ ~isnan(call.args[3])
    /\ ret = DirUnknown

\* the True Range of bar k as the rolling sum sees it: the first bar has no
\* previous close and its value is high - low
TrueRangeAt(h, l, c, k) ==
    LET Max2(x, y) == IF FLt(x, y) THEN y ELSE x
    IN  IF k = 1 THEN FSub(h[k], l[k])
        ELSE Max2(Max2(FSub(h[k], l[k]), FAbs(FSub(h[k], c[k - 1]))),
                  FAbs(FSub(l[k], c[k - 1])))

\* +DM and -DM of bar k: 0 on the first bar, which has no move
PlusDmAt(h, l, k) ==
    IF k = 1 THEN F(0)
    ELSE LET up == FSub(h[k], h[k - 1])
             down == FSub(l[k - 1], l[k])
         IN  IF FGt(up, down) /\ FGt(up, F(0)) THEN up ELSE F(0)
MinusDmAt(h, l, k) ==
    IF k = 1 THEN F(0)
    ELSE LET up == FSub(h[k], h[k - 1])
             down == FSub(l[k - 1], l[k])
         IN  IF FGt(down, up) /\ FGt(down, F(0)) THEN down ELSE F(0)

\* the complete window of w bars ending at k has a rolling sum of True Range
\* of 0, or a non-zero one with +DI + -DI = 0
ZeroTrSum(h, l, c, w, k) ==
    /\ k >= w
    /\ \A j \in (k - w + 1)..k : TrueRangeAt(h, l, c, j) = F(0)
ZeroDiSum(h, l, c, w, k) ==
    /\ k >= w
    /\ \E j \in (k - w + 1)..k : TrueRangeAt(h, l, c, j) # F(0)
    /\ \A j \in (k - w + 1)..k :
          PlusDmAt(h, l, j) = F(0) /\ MinusDmAt(h, l, j) = F(0)

\* C4: on valid bars every ADX value is NaN or lies in [0, 100], and it is
\* NaN at every position whose window of `window` DX values contains a
\* position where the rolling sum of True Range is 0 or +DI + -DI is 0.
C4_AdxBounded ==
    Returned("adx") =>
        LET h == call.args[1]
            l == call.args[2]
            c == call.args[3]
            w == call.args[4]
        IN  \A i \in 1..Len(ret) :
                /\ isnan(ret[i]) \/ (FGe(ret[i], F(0)) /\ FLe(ret[i], F(100)))
                /\ (\E k \in 1..i :
                       /\ k > i - w
                       /\ ZeroTrSum(h, l, c, w, k) \/ ZeroDiSum(h, l, c, w, k))
                      => isnan(ret[i])

C4_Witness ==
    /\ Returned("adx")
    /\ \E i \in 1..Len(ret) : ~isnan(ret[i])
    /\ LET h == call.args[1]
           l == call.args[2]
           c == call.args[3]
           w == call.args[4]
       IN  /\ \E k \in 1..Len(ret) : ZeroTrSum(h, l, c, w, k)
           /\ \E k \in 1..Len(ret) : ZeroDiSum(h, l, c, w, k)

\* C8: true_range is NaN at the first position and
\* max(high-low, |high-prev close|, |low-prev close|) at every later one.
C8_TrueRange ==
    Returned("true_range") =>
        LET h == call.args[1]
            l == call.args[2]
            c == call.args[3]
            Max2(x, y) == IF FLt(x, y) THEN y ELSE x
        IN  \A i \in 1..Len(ret) :
                IF i = 1 THEN isnan(ret[i])
                ELSE ret[i] = Max2(Max2(FSub(h[i], l[i]),
                                        FAbs(FSub(h[i], c[i - 1]))),
                                   FAbs(FSub(l[i], c[i - 1])))

\* the series without its position i
Remove(s, i) == SubSeq(s, 1, i - 1) \o SubSeq(s, i + 1, Len(s))

\* bar i repeats the High, Low and Close of bar i-1
Duplicate(h, l, c, i) ==
    i >= 2 /\ h[i] = h[i - 1] /\ l[i] = l[i - 1] /\ c[i] = c[i - 1]

\* ATR over the bars of the window ending at j, bar i left out
AtrExcluding(h, l, c, w, i, j) ==
    atr(Remove(h, i), Remove(l, i), Remove(c, i), w - 1)[j - 1]

\* the windows of w >= 2 bars that end at j and hold the bar i
Windows(n, w, i) == {j \in i..n : j >= w /\ j - w + 1 <= i}

\* C10 (as stated): the True Range of a bar that repeats the previous bar is
\* 0, and the ATR of a window holding it is strictly less than the ATR of
\* the same bars without it.
C10_Original ==
    /\ Returned("true_range") =>
          \A i \in 1..Len(ret) :
              Duplicate(call.args[1], call.args[2], call.args[3], i)
                  => ret[i] = F(0)
    /\ (Returned("atr") /\ call.args[4] >= 2) =>
          LET h == call.args[1]
              l == call.args[2]
              c == call.args[3]
              w == call.args[4]
          IN  \A i \in 1..Len(ret) : Duplicate(h, l, c, i) =>
                  \A j \in Windows(Len(ret), w, i) :
                      FLt(ret[j], AtrExcluding(h, l, c, w, i, j))

\* C10 (amended): the True Range of a bar that repeats the previous bar and
\* is flat (High = Low = Close) is 0, and the ATR of a window holding it is
\* strictly less than the ATR of the same bars without it whenever that ATR
\* is not 0 (when it is 0, both are 0).
C10_FlatDuplicate ==
    /\ Returned("true_range") =>
          \A i \in 1..Len(ret) :
              (/\ Duplicate(call.args[1], call.args[2], call.args[3], i)
               /\ call.args[1][i] = call.args[2][i])
                  => ret[i] = F(0)
    /\ (Returned("atr") /\ call.args[4] >= 2) =>
          LET h == call.args[1]
              l == call.args[2]
              c == call.args[3]
              w == call.args[4]
          IN  \A i \in 1..Len(ret) : (Duplicate(h, l, c, i) /\ h[i] = l[i]) =>
                  \A j \in Windows(Len(ret), w, i) :
                      LET excl == AtrExcluding(h, l, c, w, i, j)
                      IN  IF excl = F(0) THEN ret[j] = F(0)
                          ELSE FLt(ret[j], excl)

C10_Witness ==
    /\ Returned("atr")
    /\ call.args[4] >= 2
    /\ LET h == call.args[1]
           l == call.args[2]
           c == call.args[3]
           w == call.args[4]
       IN  \E i \in 1..Len(ret) :
               /\ Duplicate(h, l, c, i)
               /\ h[i] = l[i]
               /\ \E j \in Windows(Len(ret), w, i) :
                      FLt(ret[j], AtrExcluding(h, l, c, w, i, j))

RECURSIVE LastValid(_, _, _)
\* the last k non-missing values of s[1..i], in order
LastValid(s, i, k) ==
    IF i = 0 \/ k = 0 THEN <<>>
    ELSE IF isnan(s[i]) THEN LastValid(s, i - 1, k)
    ELSE Append(LastValid(s, i - 1, k - 1), s[i])

\* m is the least-squares slope of y against 0..n-1: with the intercept
\* c = mean(y) - m * mean(x) the residuals y - m*x - c sum to 0 and are
\* orthogonal to x
IsLeastSquares(y, m) ==
    LET n == Len(y)
        xbar == Norm(SumX(n), n)
        ybar == FDiv(SumF(y, 1, n), F(n))
        c == FSub(ybar, FMul(m, xbar))
        res == [k \in 1..n |-> FSub(FSub(y[k], FMul(m, F(k - 1))), c)]
    IN  /\ SumF(res, 1, n) = F(0)
        /\ SumXY(res, n) = F(0)

----------------------------------------------------------------------------
(* The script run: fetch, checks, merge, metrics, view filter, snapshot *)

\* DataFrame.empty: no rows or no columns
empty(frame) == Len(frame.Date) = 0 \/ frame.columns = {}

required == {"Date", "Open", "High", "Low", "Close"}

\* rows of `right` whose Date is d, in order
Matches(right, d) ==
    SelectSeq([k \in 1..Len(right.Date) |-> k], LAMBDA k : right.Date[k] = d)

RECURSIVE MergePairs(_, _, _, _)
\* pd.merge(left, right, on="Date", how="left") for the left rows lo..hi, as
\* pairs <<left row, right row or 0>>: every left row is kept in order, once
\* per matching right row and once with 0 (no partner) when nothing matches
MergePairs(left, right, lo, hi) ==
    IF lo > hi THEN <<>>
    ELSE IF lo = hi
    THEN LET m == Matches(right, left.Date[lo])
         IN  IF Len(m) = 0 THEN << <<lo, 0>> >>
             ELSE [k \in 1..Len(m) |-> <<lo, m[k]>>]
    ELSE LET mid == (lo + hi) \div 2
         IN  MergePairs(left, right, lo, mid) \o
             MergePairs(left, right, mid + 1, hi)

\* how="inner" in place of how="left": rows without a partner are dropped
merge_vix_inner(left, right) ==
    IF ~empty(right) /\ "Close" \in right.columns
    THEN LET pairs == SelectSeq(MergePairs(left, right, 1, Len(left.Date)),
                               LAMBDA pr : pr[2] # 0)
             take(col) == [k \in 1..Len(pairs) |-> col[pairs[k][1]]]
         IN  [Date |-> take(left.Date), High |-> take(left.High),
              Low |-> take(left.Low), Close |-> take(left.Close),
              Vix |-> [k \in 1..Len(pairs) |-> right.Close[pairs[k][2]]]]
    ELSE [Date |-> left.Date, High |-> left.High, Low |-> left.Low,
          Close |-> left.Close,
          Vix |-> [k \in 1..Len(left.Date) |-> NaN]]

\* lines 162-167: df with the columns of nifty and the column Vix
merge_vix(left, right) ==
    IF ~empty(right) /\ "Close" \in right.columns
    THEN LET pairs == MergePairs(left, right, 1, Len(left.Date))
             take(col) == [k \in 1..Len(pairs) |-> col[pairs[k][1]]]
         IN  [Date |-> take(left.Date), High |-> take(left.High),
              Low |-> take(left.Low), Close |-> take(left.Close),
              Vix |-> [k \in 1..Len(pairs) |->
                          IF pairs[k][2] = 0 THEN NaN
                          ELSE right.Close[pairs[k][2]]]]
    ELSE [Date |-> left.Date, High |-> left.High, Low |-> left.Low,
          Close |-> left.Close,
          Vix |-> [k \in 1..Len(left.Date) |-> NaN]]

\* Iv_proxy - Rv20, kept exact: [iv |-> a, sq |-> q] stands for a - sqrt(q)
\* and is NaN when a or q is
iv_minus_rv(iv, rv) == [i \in 1..Len(iv) |-> [iv |-> iv[i], sq |-> rv[i].sq]]

\* lines 170-180
compute_metrics(m) ==
    LET Atr14 == atr(m.High, m.Low, m.Close, 14)
        Rv20 == realized_vol(m.Close, 20, 252)
        Iv_proxy == [i \in 1..Len(m.Vix) |-> FDiv(m.Vix[i], F(100))]
    IN  [Date |-> m.Date, High |-> m.High, Low |-> m.Low, Close |-> m.Close,
         Vix |-> m.Vix,
         Ma20 |-> rolling_mean(m.Close, 20),
         Ma50 |-> rolling_mean(m.Close, 50),
         Ma200 |-> rolling_mean(m.Close, 200),
         Adx14 |-> adx(m.High, m.Low, m.Close, 14),
         Rv20 |-> Rv20,
         Atr14 |-> Atr14,
         Atr_pct |-> [i \in 1..Len(m.Close) |-> FDiv(Atr14[i], m.Close[i])],
         Iv_proxy |-> Iv_proxy,
         Iv_minus_rv20 |-> iv_minus_rv(Iv_proxy, Rv20)]

\* line 183: positions of the rows inside the view window
view_rows(frame, vs, ve) ==
    SelectSeq([k \in 1..Len(frame.Date) |-> k],
              LAMBDA k : frame.Date[k] >= vs /\ frame.Date[k] <= ve)

(* Inputs of a run *)

Today == 201          \* day number of view_end; a frame holds at most Today rows
PipeMaxPrice == 2     \* closes of the fetched bars are 0..PipeMaxPrice
PipeMaxRange == 1     \* high - low of the fetched bars is 0..PipeMaxRange

\* row counts around the windows 14, 20, 50 and 200 and around 2*14-1
BarCounts == {0, 1, 13, 14, 20, 21, 26, 27, 29, 50}
LongBarCounts == {199, 200}
StepTails == {0, 1, 25}

\* n daily bars ending at Today: close a, then close b on the last m days;
\* low = close and high = close + r
StepFrame(cols, n, a, b, m, r) ==
    LET c == [i \in 1..n |-> IF i > n - m THEN b ELSE a]
    IN  [columns |-> cols,
         Date |-> [i \in 1..n |-> Today - n + i],
         High |-> [i \in 1..n |-> F(c[i] + r)],
         Low |-> [i \in 1..n |-> F(c[i])],
         Close |-> [i \in 1..n |-> F(c[i])]]

\* fetch_yf returned pd.DataFrame()
EmptyFrame == [columns |-> {}, Date |-> <<>>, High |-> <<>>, Low |-> <<>>,
               Close |-> <<>>]

NiftyFrames(prices, ranges) ==
    {EmptyFrame}
    \cup {StepFrame(required, n, a, b, m, r) :
            n \in BarCounts, a \in prices, b \in prices,
            m \in StepTails, r \in ranges}
    \cup {StepFrame(required, n, PipeMaxPrice, PipeMaxPrice, 0, r) :
            n \in LongBarCounts, r \in ranges}
    \cup {StepFrame(required \ {col}, 1, 1, 1, 0, 0) : col \in required}

\* the proxy: absent, without a Close column, or quoted on the even days
\* (and on day 0, which no bar has)
VixFrames(last_day) ==
    LET days == SelectSeq([d \in 1..(last_day + 1) |-> d - 1],
                          LAMBDA d : d % 2 = 0)
        quotes == [k \in 1..Len(days) |-> F(10 + (days[k] % 7))]
    IN  { [columns |-> {}, Date |-> <<>>, Close |-> <<>>],
          [columns |-> {"Date", "Open"}, Date |-> days, Close |-> <<>>],
          [columns |-> {"Date", "Close"}, Date |-> days, Close |-> quotes] }

ViewStarts == {1, Today - 1, Today + 1}

Init ==
    /\ pc = "check_inputs"
    /\ nifty \in NiftyFrames(0..PipeMaxPrice, 0..PipeMaxRange)
    /\ vix \in VixFrames(Today)
    /\ view_start \in ViewStarts
    /\ view_end = Today
    /\ df = Idle /\ view_df = Idle /\ ma20_slope = Idle /\ dir_text = Idle
    /\ trend_text = Idle /\ window_return = Idle
    /\ call = Idle /\ ret = Idle

\* lines 152-159
CheckInputs ==
    /\ pc = "check_inputs"
    /\ pc' = IF empty(nifty) THEN "stop_no_data"
             ELSE IF ~(required \subseteq nifty.columns) THEN "stop_missing_columns"
             ELSE "metrics"
    /\ UNCHANGED <<nifty, vix, view_start, view_end, df, view_df, ma20_slope,
                   dir_text, trend_text, window_return, call, ret>>

\* lines 161-180
ComputeMetrics ==
    /\ pc = "metrics"
    /\ df' = compute_metrics(merge_vix(nifty, vix))
    /\ pc' = "filter"
    /\ UNCHANGED <<nifty, vix, view_start, view_end, view_df, ma20_slope,
                   dir_text, trend_text, window_return, call, ret>>

\* lines 183-186; view_df is kept as the positions of its rows in df
FilterView ==
    /\ pc = "filter"
    /\ view_df' = view_rows(df, view_start, view_end)
    /\ pc' = IF Len(view_df') = 0 THEN "stop_no_rows" ELSE "snapshot"
    /\ UNCHANGED <<nifty, vix, view_start, view_end, df, ma20_slope,
                   dir_text, trend_text, window_return, call, ret>>

first == view_df[1]
latest == view_df[Len(view_df)]

\* lines 188-194; a raise in direction_label ends the run
Snapshot ==
    /\ pc = "snapshot"
    /\ LET m == slope([k \in 1..Len(view_df) |-> df.Ma20[view_df[k]]], 20)
           d == direction_label(df.Close[first], df.Close[latest], m)
       IN  /\ ma20_slope' = m
           /\ IF d = ZeroDivisionError
              THEN /\ pc' = "raised"
                   /\ UNCHANGED <<dir_text, trend_text>>
              ELSE /\ pc' = "render"
                   /\ dir_text' = d
                   /\ trend_text' = trend_strength_label(df.Adx14[latest])
    /\ UNCHANGED <<nifty, vix, view_start, view_end, df, view_df,
                   window_return, call, ret>>

\* lines 199-216: the metrics row; line 213 divides two Python floats
Render ==
    /\ pc = "render"
    /\ IF PyDivRaises(df.Close[latest], df.Close[first])
       THEN pc' = "raised" /\ UNCHANGED window_return
       ELSE /\ window_return' =
                   FSub(FDiv(df.Close[latest], df.Close[first]), F(1))
            /\ pc' = "done"
    /\ UNCHANGED <<nifty, vix, view_start, view_end, df, view_df, ma20_slope,
                   dir_text, trend_text, call, ret>>

Next == CheckInputs \/ ComputeMetrics \/ FilterView \/ Snapshot \/ Render

Spec == Init /\ [][Next]_vars

----------------------------------------------------------------------------
(* Properties of the script run *)

C5_NeverCrashes ==
    /\ pc # "raised"
    /\ pc \in {"stop_no_data", "stop_missing_columns", "stop_no_rows"} =>
          (ma20_slope = Idle /\ dir_text = Idle /\ trend_text = Idle
           /\ window_return = Idle)

ProxyMissing == empty(vix) \/ "Close" \notin vix.columns

NoProxy == [columns |-> {}, Date |-> <<>>, Close |-> <<>>]

SpreadIsNaN(x) == isnan(x.iv) \/ isnan(x.sq)

\* the Vix quote of day d, NaN when the proxy has none
QuoteOn(d) ==
    IF ProxyMissing \/ \A k \in 1..Len(vix.Date) : vix.Date[k] # d THEN NaN
    ELSE vix.Close[CHOOSE k \in 1..Len(vix.Date) : vix.Date[k] = d]

\* C6: with the proxy missing Iv_minus_rv20 is NaN on every row; with or
\* without a proxy every non-proxy indicator has the value computed from the
\* bars alone, and the merged frame holds every bar row, in order, with the
\* Vix quote of its day or NaN.
C6_ProxyMissing ==
    pc = "filter" =>
        LET alone == compute_metrics(merge_vix(nifty, NoProxy))
        IN  /\ ProxyMissing =>
                  \A i \in 1..Len(df.Date) : SpreadIsNaN(df.Iv_minus_rv20[i])
            /\ df.Date = nifty.Date
            /\ df.High = nifty.High /\ df.Low = nifty.Low
            /\ df.Close = nifty.Close
            /\ \A i \in 1..Len(df.Date) : df.Vix[i] = QuoteOn(nifty.Date[i])
            /\ df.Ma20 = alone.Ma20 /\ df.Ma50 = alone.Ma50
            /\ df.Ma200 = alone.Ma200 /\ df.Adx14 = alone.Adx14
            /\ df.Rv20 = alone.Rv20 /\ df.Atr14 = alone.Atr14
            /\ df.Atr_pct = alone.Atr_pct

C6_Witness ==
    /\ pc = "filter"
    /\ ~empty(vix) /\ "Close" \notin vix.columns
    /\ \E i \in 1..Len(df.Date) : ~isnan(df.Rv20[i].sq)
    /\ \E i \in 1..Len(df.Date) : ~isnan(df.Adx14[i])

\* the values of a column are all NaN
AllNaN(col) == \A i \in 1..Len(col) : isnan(col[i])
\* only the last value of a column is defined
OnlyLast(col) ==
    /\ ~isnan(col[Len(col)])
    /\ \A i \in 1..(Len(col) - 1) : isnan(col[i])

Rv20Values == [i \in 1..Len(df.Rv20) |-> df.Rv20[i].sq]

\* C7 (as stated): with exactly `window` bars each of Ma20, Ma50, Ma200,
\* Rv20, Atr14 and Adx14 is defined at the last position only, and with
\* fewer than `window` bars it is NaN everywhere.
C7_Original ==
    pc = "filter" =>
        LET n == Len(nifty.Date)
            Windowed(col, w) == /\ n = w => OnlyLast(col)
                                /\ n < w => AllNaN(col)
        IN  /\ Windowed(df.Ma20, 20)
            /\ Windowed(df.Ma50, 50)
            /\ Windowed(df.Ma200, 200)
            /\ Windowed(Rv20Values, 20)
            /\ Windowed(df.Atr14, 14)
            /\ Windowed(df.Adx14, 14)

\* C7 (amended): with exactly `window` bars Ma20, Ma50, Ma200 and Atr14 are
\* defined at the last position only.  Rv20 is NaN everywhere with 20 bars
\* or fewer and, when no close is 0, defined at the last position only with
\* 21 bars; Adx14 is NaN everywhere with fewer than 27 bars.  With fewer
\* than `window` bars each of the six is NaN everywhere.
C7_Windows ==
    pc = "filter" =>
        LET n == Len(nifty.Date)
            Windowed(col, w) == /\ n = w => OnlyLast(col)
                                /\ n < w => AllNaN(col)
        IN  /\ Windowed(df.Ma20, 20)
            /\ Windowed(df.Ma50, 50)
            /\ Windowed(df.Ma200, 200)
            /\ Windowed(df.Atr14, 14)
            /\ n <= 20 => AllNaN(Rv20Values)
            /\ (n = 21 /\ \A i \in 1..n : nifty.Close[i] # F(0))
                  => OnlyLast(Rv20Values)
            /\ n < 27 => AllNaN(df.Adx14)

C7_Witness ==
    /\ pc = "filter"
    /\ Len(nifty.Date) = 20
    /\ OnlyLast(df.Ma20)
    /\ AllNaN(Rv20Values)
    /\ \E i \in 1..20 : ~isnan(df.Atr14[i])

====
